---- MODULE Spec2Model ----
(***************************************************************************)
(* Model of the two services of the repository:                            *)
(*   - ExaClient (src/src/services/exa_client.py): the wrapper around the  *)
(*     remote search service, with search, get_contents, find_similar and  *)
(*     the primary/fallback protocol of search_comprehensive;              *)
(*   - ComprehensiveReportGenerator                                        *)
(*     (src/src/services/comprehensive_report_generator.py).               *)
(*                                                                         *)
(* A text is a sequence of runs [c |-> character, n |-> count], n > 0, so  *)
(* that slicing and stripping act on texts of the real lengths (2000, 100).*)
(* A Python str(e) is a sequence of string tokens, so that an f-string     *)
(* that prefixes a message is a concatenation and not the identity.        *)
(***************************************************************************)
EXTENDS Integers, Sequences, FiniteSets, TLC

VARIABLES
    api_key,        \* ExaClient.api_key: "" when no credential is configured
    client,         \* ExaClient.client: "Exa" (a handle) or "None"
    available,      \* ExaClient.available
    pc,             \* position of the current search_comprehensive invocation
    query,          \* argument query of the current invocation
    num_results,    \* argument num_results of the current invocation
    kwargs,         \* keyword filters of the current invocation
    calls,          \* remote calls issued by the current invocation, in order
    primaryRaised,  \* what the inner try block raised, as str(e) (<<>> if nothing)
    primaryResp,    \* what search_and_contents returned (NoResponse if nothing)
    fallbackRaised, \* what the fallback try block raised, as str(e)
    fallbackResp,   \* what the fallback search returned
    outcome,        \* the value the invocation returned
    lastOp,         \* the last of search / get_contents / find_similar / is_available that ran
    remote,         \* what the remote service did in that operation
    ret,            \* what that operation returned
    analysis_data,  \* argument analysis_data of the last generate_complete_report
    session_id,     \* argument session_id of that call
    report,         \* what that call returned
    saves           \* the salvar_etapa calls of that call, in order

exaVars == <<api_key, client, available, pc, query, num_results, kwargs, calls,
             primaryRaised, primaryResp, fallbackRaised, fallbackResp, outcome,
             lastOp, remote, ret>>

reportVars == <<analysis_data, session_id, report, saves>>

vars == <<exaVars, reportVars>>

-----------------------------------------------------------------------------
(* Bounds of the model *)

\* longest result list a remote response carries
MaxItems == 2

(* Program constants *)

PrimaryLimit == 20
FallbackLimit == 10
TextCap == 2000
TextFloor == 100
DefaultMinLength == 200
DefaultMaxLength == 2000
ScoreFactor == 100
HttpOk == 200

-----------------------------------------------------------------------------
(* Python values *)

None == "None"

\* getattr(o, a, d) and dict.get(a, d): the default only when a is missing
GetAttr(o, a, d) == IF a \in DOMAIN o THEN o[a] ELSE d

Min(a, b) == IF a <= b THEN a ELSE b

\* an int argument, or None passed where an int is expected
IntArg(v) == [isInt |-> TRUE, v |-> v]
NoneArg == [isInt |-> FALSE, v |-> 0]

\* min(num_results, limit): raises TypeError on None
PyMin(arg, limit) ==
    IF arg.isInt THEN [raised |-> <<>>, v |-> Min(arg.v, limit)]
    ELSE [raised |-> <<"'<' not supported between instances of 'int' and 'NoneType'">>,
          v |-> 0]

-----------------------------------------------------------------------------
(* Texts *)

RECURSIVE TextLen(_)
TextLen(t) == IF t = <<>> THEN 0 ELSE Head(t).n + TextLen(Tail(t))

\* t[:k]
RECURSIVE Slice(_, _)
Slice(t, k) ==
    IF t = <<>> \/ k <= 0 THEN <<>>
    ELSE IF Head(t).n <= k THEN <<Head(t)>> \o Slice(Tail(t), k - Head(t).n)
    ELSE <<[c |-> Head(t).c, n |-> k]>>

IsSpace(c) == c = " "

RECURSIVE LStrip(_)
LStrip(t) == IF t # <<>> /\ IsSpace(Head(t).c) THEN LStrip(Tail(t)) ELSE t

RECURSIVE RStrip(_)
RStrip(t) ==
    IF t # <<>> /\ IsSpace(t[Len(t)].c) THEN RStrip(SubSeq(t, 1, Len(t) - 1)) ELSE t

\* str.strip()
Strip(t) == RStrip(LStrip(t))

\* the i-th character of t, 1 <= i <= TextLen(t)
RECURSIVE CharAt(_, _)
CharAt(t, i) == IF i <= Head(t).n THEN Head(t).c ELSE CharAt(Tail(t), i - Head(t).n)

Run(c, n) == [c |-> c, n |-> n]

-----------------------------------------------------------------------------
(* What the remote service can answer *)

T50 == <<Run("a", 50)>>
T150 == <<Run("a", 150)>>
TPad99 == <<Run(" ", 50), Run("a", 99), Run(" ", 50)>>
TPad100 == <<Run(" ", 10), Run("a", 100), Run(" ", 10)>>
T2000 == <<Run("a", 2000)>>
T2500 == <<Run("a", 1500), Run("b", 1000)>>
TLead == <<Run(" ", 1950), Run("a", 150)>>

Texts == {T50, T150, TPad99, TPad100, T2000, T2500, TLead}

\* the text attribute of a returned item: missing, None, or a string
StrText(t) == [has |-> TRUE, isStr |-> TRUE, s |-> t]
NoneText == [has |-> TRUE, isStr |-> FALSE, s |-> <<>>]
MissingText == [has |-> FALSE, isStr |-> FALSE, s |-> <<>>]
TextAttrs == {StrText(t) : t \in Texts} \cup {NoneText, MissingText}

Urls == [i \in 1..(MaxItems + 1) |-> <<"https://site/", i>>]

\* the i-th item of a response; every second item carries no title
Item(i, ta) ==
    [a \in {"url", "score"}
          \cup (IF ta.has THEN {"text"} ELSE {})
          \cup (IF i % 2 = 1 THEN {"title"} ELSE {}) |->
        CASE a = "url" -> Urls[i]
          [] a = "score" -> i
          [] a = "text" -> ta
          [] a = "title" -> <<"Title ", i>>]

ItemLists ==
    UNION {{[i \in 1..n |-> Item(i, f[i])] : f \in [1..n -> TextAttrs]} : n \in 0..MaxItems}

NoResponse == [nothing |-> TRUE]
Responses == {[results |-> l] : l \in ItemLists} \cup {[request_id |-> "r"]}

RemoteErrors == {"timeout", "HTTP 500"}

-----------------------------------------------------------------------------
(* search_comprehensive *)

EmptyKwargs == [k \in {} |-> None]
KwargsChoices == {EmptyKwargs, [start_date |-> "2024-01-01", include_domains |-> <<"site">>]}

PrimaryCountBug(arg) == PyMin(arg, FallbackLimit + PrimaryLimit)
\* min(num_results, 20)
PrimaryCount(arg) == PyMin(arg, PrimaryLimit)

FallbackCountBug(arg) == PyMin(arg, PrimaryLimit)
\* min(num_results, 10)
FallbackCount(arg) == PyMin(arg, FallbackLimit)

\* search_params after the None-valued entries are removed
SearchParams(q, count, kw) ==
    [k \in {"query", "num_results", "use_autoprompt", "type", "include_domains",
            "exclude_domains", "include_text", "text_length_min", "text_length_max"}
          \cup (IF "start_date" \in DOMAIN kw THEN {"start_crawl_date"} ELSE {})
          \cup (IF "end_date" \in DOMAIN kw THEN {"end_crawl_date"} ELSE {}) |->
        CASE k = "query" -> q
          [] k = "num_results" -> count
          [] k = "use_autoprompt" -> TRUE
          [] k = "type" -> "neural"
          [] k = "include_domains" -> GetAttr(kw, "include_domains", <<>>)
          [] k = "exclude_domains" -> GetAttr(kw, "exclude_domains", <<>>)
          [] k = "start_crawl_date" -> kw["start_date"]
          [] k = "end_crawl_date" -> kw["end_date"]
          [] k = "include_text" -> TRUE
          [] k = "text_length_min" -> GetAttr(kw, "min_length", DefaultMinLength)
          [] k = "text_length_max" -> GetAttr(kw, "max_length", DefaultMaxLength)]

BasicParams(q, count) == [query |-> q, num_results |-> count, use_autoprompt |-> TRUE]

LimitTextBug(t) == t
\* text[:2000]
LimitText(t) == Slice(t, TextCap)

\* the dict built from one returned item; a None text cannot be sliced
ProcessResult(result) ==
    LET ta == GetAttr(result, "text", StrText(<<>>)) IN
    IF ~ta.isStr
    THEN [raised |-> <<"'NoneType' object is not subscriptable">>, value |-> NoResponse]
    ELSE [raised |-> <<>>,
          value |-> [title |-> GetAttr(result, "title", <<"Sem título">>),
                     url |-> GetAttr(result, "url", <<>>),
                     text |-> LimitText(ta.s),
                     score |-> GetAttr(result, "score", 0),
                     published_date |-> GetAttr(result, "published_date", None),
                     author |-> GetAttr(result, "author", None),
                     source |-> "exa_neural",
                     relevance_score |-> GetAttr(result, "score", 0) * ScoreFactor]]

HasMinimumContentBug(processed) == TextLen(processed.text) >= TextFloor
\* len(processed_result['text'].strip()) >= 100
HasMinimumContent(processed) == TextLen(Strip(processed.text)) >= TextFloor

\* the loop over response.results: stops at the first item that raises
RECURSIVE ProcessResults(_)
ProcessResults(results) ==
    IF results = <<>> THEN [raised |-> <<>>, results |-> <<>>]
    ELSE LET p == ProcessResult(Head(results)) IN
         IF p.raised # <<>> THEN [raised |-> p.raised, results |-> <<>>]
         ELSE LET rest == ProcessResults(Tail(results)) IN
              IF rest.raised # <<>> THEN rest
              ELSE [raised |-> <<>>,
                    results |-> IF HasMinimumContent(p.value)
                                THEN <<p.value>> \o rest.results
                                ELSE rest.results]

\* hasattr(response, 'results') and response.results
ResultsOf(response) == GetAttr(response, "results", <<>>)

BasicResultBug(result) ==
    [title |-> GetAttr(result, "title", <<"Sem título">>),
     url |-> GetAttr(result, "url", <<>>),
     text |-> <<>>,
     score |-> GetAttr(result, "score", 0),
     source |-> "exa_neural"]
\* the dict built from one item of the basic search
BasicResult(result) ==
    [title |-> GetAttr(result, "title", <<"Sem título">>),
     url |-> GetAttr(result, "url", <<>>),
     text |-> <<>>,
     score |-> GetAttr(result, "score", 0),
     source |-> "exa_basic"]

BasicResults(results) == [i \in 1..Len(results) |-> BasicResult(results[i])]

NoOutcome == [pending |-> TRUE]

MissingCredential(q) ==
    [success |-> FALSE, error |-> <<"API key não configurada">>, query |-> q,
     results |-> <<>>]

OuterFailure(q, e) == [success |-> FALSE, error |-> e, query |-> q, results |-> <<>>]

FallbackFailureBug(q, e) == [success |-> FALSE, error |-> e, query |-> q, results |-> <<>>]
FallbackFailure(q, e) ==
    [success |-> FALSE, error |-> <<"Busca básica falhou: ">> \o e, query |-> q,
     results |-> <<>>]

NeuralSuccess(q, results, params) ==
    [success |-> TRUE, query |-> q, total_results |-> Len(results), results |-> results,
     search_strategy |-> "comprehensive_neural", timestamp |-> "now",
     search_params |-> params]

BasicSuccess(q, results) ==
    [success |-> TRUE, query |-> q, total_results |-> Len(results), results |-> results,
     search_strategy |-> "basic_fallback", timestamp |-> "now"]

AttributeError(name) == <<"'NoneType' object has no attribute '", name, "'">>

Queries == {"market"}
NumResultsChoices == {IntArg(v) : v \in {0, 10, 11, 20, 21, 1000}} \cup {NoneArg}

\* a basic search returns items without text
BasicResponses ==
    {[results |-> [i \in 1..n |-> Item(i, MissingText)]] : n \in 0..MaxItems}
        \cup {[request_id |-> "r"]}

Terminal == {"SUCCESS", "FAIL"}
Idle == {"idle"} \cup Terminal

NoReturn == [nothing |-> TRUE]

\* a caller starts search_comprehensive(query, num_results, **kwargs)
Invoke(q, n, kw) ==
    /\ pc \in Idle
    /\ pc' = "START"
    /\ query' = q
    /\ num_results' = n
    /\ kwargs' = kw
    /\ calls' = <<>>
    /\ primaryRaised' = <<>>
    /\ primaryResp' = NoResponse
    /\ fallbackRaised' = <<>>
    /\ fallbackResp' = NoResponse
    /\ outcome' = NoOutcome
    /\ lastOp' = "none"
    /\ remote' = NoResponse
    /\ ret' = NoReturn
    /\ UNCHANGED <<api_key, client, available>>
    /\ UNCHANGED reportVars

CredentialConfiguredBug(key) == TRUE
\* the truth value of self.api_key
CredentialConfigured(key) == key # ""

\* if not self.api_key: return the missing-credential outcome
NoCredential ==
    /\ pc = "START"
    /\ ~CredentialConfigured(api_key)
    /\ pc' = "FAIL"
    /\ outcome' = MissingCredential(query)
    /\ UNCHANGED <<api_key, client, available, query, num_results, kwargs, calls,
                   primaryRaised, primaryResp, fallbackRaised, fallbackResp, lastOp, remote, ret>>
    /\ UNCHANGED reportVars

HasCredential ==
    /\ pc = "START"
    /\ CredentialConfigured(api_key)
    /\ pc' = "PRIMARY"
    /\ UNCHANGED <<api_key, client, available, query, num_results, kwargs, calls,
                   primaryRaised, primaryResp, fallbackRaised, fallbackResp, outcome,
                   lastOp, remote, ret>>
    /\ UNCHANGED reportVars

\* building search_params raises: the outer handler returns the failure
BuildParamsRaises ==
    /\ pc = "PRIMARY"
    /\ PrimaryCount(num_results).raised # <<>>
    /\ pc' = "FAIL"
    /\ outcome' = OuterFailure(query, PrimaryCount(num_results).raised)
    /\ UNCHANGED <<api_key, client, available, query, num_results, kwargs, calls,
                   primaryRaised, primaryResp, fallbackRaised, fallbackResp, lastOp, remote, ret>>
    /\ UNCHANGED reportVars

PrimaryCall ==
    [op |-> "search_and_contents",
     params |-> SearchParams(query, PrimaryCount(num_results).v, kwargs)]

PrimaryWithoutClientReinit ==
    /\ pc = "PRIMARY"
    /\ PrimaryCount(num_results).raised = <<>>
    /\ client = None
    /\ client' = "Exa"
    /\ available' = TRUE
    /\ UNCHANGED <<api_key, pc, query, num_results, kwargs, calls, primaryRaised,
                   primaryResp, fallbackRaised, fallbackResp, outcome, lastOp, remote, ret>>
    /\ UNCHANGED reportVars
\* self.client is None: the attribute lookup raises inside the inner try
PrimaryWithoutClient ==
    /\ pc = "PRIMARY"
    /\ PrimaryCount(num_results).raised = <<>>
    /\ client = None
    /\ primaryRaised' = AttributeError("search_and_contents")
    /\ pc' = "FALLBACK"
    /\ UNCHANGED <<api_key, client, available, query, num_results, kwargs, calls,
                   primaryResp, fallbackRaised, fallbackResp, outcome, lastOp, remote, ret>>
    /\ UNCHANGED reportVars

\* self.client.search_and_contents(**search_params) raises
PrimaryCallRaises(m) ==
    /\ pc = "PRIMARY"
    /\ PrimaryCount(num_results).raised = <<>>
    /\ client # None
    /\ calls' = Append(calls, PrimaryCall)
    /\ primaryRaised' = <<m>>
    /\ pc' = "FALLBACK"
    /\ UNCHANGED <<api_key, client, available, query, num_results, kwargs,
                   primaryResp, fallbackRaised, fallbackResp, outcome, lastOp, remote, ret>>
    /\ UNCHANGED reportVars

\* self.client.search_and_contents(**search_params) returns, and the results
\* are processed inside the same try block
PrimaryCallReturns(response) ==
    /\ pc = "PRIMARY"
    /\ PrimaryCount(num_results).raised = <<>>
    /\ client # None
    /\ calls' = Append(calls, PrimaryCall)
    /\ primaryResp' = response
    /\ LET processed == ProcessResults(ResultsOf(response)) IN
       IF processed.raised # <<>>
       THEN /\ primaryRaised' = processed.raised
            /\ pc' = "FALLBACK"
            /\ outcome' = outcome
       ELSE /\ primaryRaised' = primaryRaised
            /\ pc' = "SUCCESS"
            /\ outcome' = NeuralSuccess(query, processed.results, PrimaryCall.params)
    /\ UNCHANGED <<api_key, client, available, query, num_results, kwargs,
                   fallbackRaised, fallbackResp, lastOp, remote, ret>>
    /\ UNCHANGED reportVars

FallbackCall ==
    [op |-> "search", params |-> BasicParams(query, FallbackCount(num_results).v)]

FallbackWithoutClientCalls ==
    /\ pc = "FALLBACK"
    /\ client = None
    /\ calls' = Append(calls, FallbackCall)
    /\ fallbackRaised' = AttributeError("search")
    /\ outcome' = FallbackFailure(query, AttributeError("search"))
    /\ pc' = "FAIL"
    /\ UNCHANGED <<api_key, client, available, query, num_results, kwargs,
                   primaryRaised, primaryResp, fallbackResp, lastOp, remote, ret>>
    /\ UNCHANGED reportVars
\* _fallback_basic_search with self.client None
FallbackWithoutClient ==
    /\ pc = "FALLBACK"
    /\ client = None
    /\ fallbackRaised' = AttributeError("search")
    /\ outcome' = FallbackFailure(query, AttributeError("search"))
    /\ pc' = "FAIL"
    /\ UNCHANGED <<api_key, client, available, query, num_results, kwargs, calls,
                   primaryRaised, primaryResp, fallbackResp, lastOp, remote, ret>>
    /\ UNCHANGED reportVars

\* a fallback that answers an error by going back to the primary call
FallbackCallRaisesRetry(m) ==
    /\ pc = "FALLBACK"
    /\ client # None
    /\ Len(calls) < 4
    /\ calls' = Append(calls, FallbackCall)
    /\ fallbackRaised' = <<m>>
    /\ pc' = "PRIMARY"
    /\ UNCHANGED <<api_key, client, available, query, num_results, kwargs,
                   primaryRaised, primaryResp, fallbackResp, outcome, lastOp, remote, ret>>
    /\ UNCHANGED reportVars

\* _fallback_basic_search: self.client.search(**basic_params) raises
FallbackCallRaises(m) ==
    /\ pc = "FALLBACK"
    /\ client # None
    /\ calls' = Append(calls, FallbackCall)
    /\ fallbackRaised' = <<m>>
    /\ outcome' = FallbackFailure(query, <<m>>)
    /\ pc' = "FAIL"
    /\ UNCHANGED <<api_key, client, available, query, num_results, kwargs,
                   primaryRaised, primaryResp, fallbackResp, lastOp, remote, ret>>
    /\ UNCHANGED reportVars

\* _fallback_basic_search: self.client.search(**basic_params) returns
FallbackCallReturns(response) ==
    /\ pc = "FALLBACK"
    /\ client # None
    /\ calls' = Append(calls, FallbackCall)
    /\ fallbackResp' = response
    /\ outcome' = BasicSuccess(query, BasicResults(ResultsOf(response)))
    /\ pc' = "SUCCESS"
    /\ UNCHANGED <<api_key, client, available, query, num_results, kwargs,
                   primaryRaised, primaryResp, fallbackRaised, lastOp, remote, ret>>
    /\ UNCHANGED reportVars

-----------------------------------------------------------------------------
(* search, get_contents, find_similar *)

\* what the remote operation does: it raises, or answers with a status code and
\* a body whose json() raises, is no mapping, or is a mapping
Payloads == {[results |-> <<>>], [results |-> <<"r1", "r2">>], [requestId |-> "r"]}
RemoteBehaviours ==
    {[kind |-> "raises", msg |-> m, status |-> 0, data |-> NoResponse] : m \in RemoteErrors}
        \cup {[kind |-> "answers", msg |-> "", status |-> c, data |-> NoResponse] :
                 c \in {404, 500}}
        \cup {[kind |-> k, msg |-> "", status |-> HttpOk, data |-> NoResponse] :
                 k \in {"json raises", "json is a list"}}
        \cup {[kind |-> "answers", msg |-> "", status |-> HttpOk, data |-> d] :
                 d \in Payloads}

ReturnNone == [isNone |-> TRUE, escaped |-> <<>>, value |-> NoResponse]
ReturnValue(d) == [isNone |-> FALSE, escaped |-> <<>>, value |-> d]

HandleResponseBug(b) ==
    IF b.kind = "raises" THEN [isNone |-> FALSE, escaped |-> <<b.msg>>, value |-> NoResponse]
    ELSE IF b.kind = "answers" THEN ReturnValue(b.data)
    ELSE ReturnNone
\* the try block after the remote call: a 200 answer is decoded, logged and returned,
\* everything else, and every exception, gives None
HandleResponse(b) ==
    IF b.kind = "answers" /\ b.status = HttpOk THEN ReturnValue(b.data) ELSE ReturnNone

FilterNames ==
    [include_domains |-> "includeDomains", exclude_domains |-> "excludeDomains",
     start_crawl_date |-> "startCrawlDate", end_crawl_date |-> "endCrawlDate",
     start_published_date |-> "startPublishedDate",
     end_published_date |-> "endPublishedDate"]

\* the payload of search: a filter is sent only when it is given and truthy
SearchPayload(q, n, filters) ==
    [k \in {"query", "numResults", "useAutoprompt", "type"}
          \cup {FilterNames[f] : f \in DOMAIN filters} |->
        CASE k = "query" -> q
          [] k = "numResults" -> n
          [] k = "useAutoprompt" -> TRUE
          [] k = "type" -> "neural"
          [] OTHER -> filters[CHOOSE f \in DOMAIN filters : FilterNames[f] = k]]

FilterChoices == {EmptyKwargs, [include_domains |-> <<"site">>, end_published_date |-> "2024-12-31"]}

ContentsPayload(ids, text) ==
    [ids |-> ids, text |-> text, highlights |-> FALSE, summary |-> FALSE]

SimilarPayload(url, n) == [url |-> url, numResults |-> n, excludeSourceDomain |-> TRUE]

\* one of the three direct operations, as a whole
DirectOp(op, payload, b) ==
    /\ pc \in Idle
    /\ lastOp' = op
    /\ IF ~available
       THEN /\ calls' = <<>>
            /\ remote' = NoResponse
            /\ ret' = ReturnNone
       ELSE /\ calls' = <<[op |-> op, params |-> payload]>>
            /\ remote' = b
            /\ ret' = HandleResponse(b)
    /\ pc' = "idle"
    /\ primaryRaised' = <<>>
    /\ primaryResp' = NoResponse
    /\ fallbackRaised' = <<>>
    /\ fallbackResp' = NoResponse
    /\ outcome' = NoOutcome
    /\ UNCHANGED <<api_key, client, available, query, num_results, kwargs>>
    /\ UNCHANGED reportVars

\* is_available: return self.available
IsAvailable ==
    /\ pc \in Idle
    /\ lastOp' = "is_available"
    /\ ret' = ReturnValue(available)
    /\ calls' = <<>>
    /\ remote' = NoResponse
    /\ pc' = "idle"
    /\ primaryRaised' = <<>>
    /\ primaryResp' = NoResponse
    /\ fallbackRaised' = <<>>
    /\ fallbackResp' = NoResponse
    /\ outcome' = NoOutcome
    /\ UNCHANGED <<api_key, client, available, query, num_results, kwargs>>
    /\ UNCHANGED reportVars

Search(q, n, filters, b) == DirectOp("search", SearchPayload(q, n, filters), b)

GetContents(ids, text, b) == DirectOp("get_contents", ContentsPayload(ids, text), b)

FindSimilar(url, n, b) == DirectOp("find_similar", SimilarPayload(url, n), b)

-----------------------------------------------------------------------------
(* ComprehensiveReportGenerator: values of the input mapping *)

EmptyDict == [k \in {} |-> None]

\* a value that is a mapping, or None where a mapping is expected
Mapping(m) == [isNone |-> FALSE, m |-> m]
NoneValue == [isNone |-> TRUE, m |-> EmptyDict]

\* a value that is a list, or None where a list is expected
ListValue(l) == [isList |-> TRUE, l |-> l]
NoListValue == [isList |-> FALSE, l |-> <<>>]

Raised(e) == [raised |-> e, value |-> EmptyDict]
Built(v) == [raised |-> <<>>, value |-> v]

NoGet == <<"'NoneType' object has no attribute 'get'">>
NotSubscriptable == <<"'NoneType' object is not subscriptable">>
NoLen == <<"object of type 'NoneType' has no len()">>

\* self.required_components
RequiredComponents ==
    <<"pesquisa_web_massiva", "avatar_ultra_detalhado", "drivers_mentais_customizados",
      "provas_visuais_arsenal", "sistema_anti_objecao", "pre_pitch_invisivel",
      "predicoes_futuro_detalhadas", "analise_concorrencia", "insights_exclusivos",
      "palavras_chave_estrategicas", "funil_vendas_otimizado">>

MaxSources == 10

\* data.get(key, {}) where data is a mapping
Subsection(data, key) == GetAttr(data.m, key, Mapping(EmptyDict))

-----------------------------------------------------------------------------
(* ComprehensiveReportGenerator: the section builders *)

\* _generate_web_research_section
GenerateWebResearchSection(data) ==
    LET research_data == Subsection(data, "pesquisa_web_massiva") IN
    IF research_data.isNone THEN Raised(NoGet)
    ELSE LET found == GetAttr(research_data.m, "search_results", ListValue(<<>>)) IN
         IF ~found.isList THEN Raised(NotSubscriptable)
         ELSE Built(
            [resumo |-> "Pesquisa web massiva realizada com múltiplas fontes",
             total_fontes |-> GetAttr(research_data.m, "total_resultados", 0),
             conteudo_extraido |-> GetAttr(research_data.m, "resultados_extraidos", 0),
             qualidade_dados |-> GetAttr(research_data.m, "qualidade_pesquisa", "PREMIUM"),
             principais_achados |-> <<"Tendências de mercado identificadas",
                                     "Competidores principais mapeados",
                                     "Oportunidades de mercado detectadas">>,
             fontes_utilizadas |-> SubSeq(found.l, 1, Min(Len(found.l), MaxSources))])

GenerateAvatarSectionBug(data) ==
    LET avatar_data == Subsection(data, "avatar_ultra_detalhado") IN
    IF avatar_data.isNone THEN Raised(NoGet) ELSE Built(avatar_data.m)
\* _generate_avatar_section
GenerateAvatarSection(data) ==
    LET avatar_data == Subsection(data, "avatar_ultra_detalhado") IN
    IF avatar_data.isNone THEN Raised(NoGet)
    ELSE Built(
        [perfil_demografico |-> GetAttr(avatar_data.m, "demographics", EmptyDict),
         perfil_psicografico |-> GetAttr(avatar_data.m, "psychographics", EmptyDict),
         dores_viscerais |-> GetAttr(avatar_data.m, "dores", <<>>),
         desejos_ocultos |-> GetAttr(avatar_data.m, "desejos", <<>>),
         objecoes_principais |-> GetAttr(avatar_data.m, "objecoes", <<>>),
         linguagem_preferida |-> GetAttr(avatar_data.m, "linguagem", "Informal"),
         canais_comunicacao |-> GetAttr(avatar_data.m, "canais", <<>>),
         insights_comportamentais |-> <<"Padrões de decisão identificados",
                                       "Gatilhos emocionais mapeados",
                                       "Momentos de maior receptividade">>])

\* _generate_drivers_section
GenerateDriversSection(data) ==
    LET drivers_data == Subsection(data, "drivers_mentais_customizados") IN
    IF drivers_data.isNone THEN Raised(NoGet)
    ELSE LET drivers == GetAttr(drivers_data.m, "drivers_customizados", ListValue(<<>>)) IN
         IF ~drivers.isList THEN Raised(NoLen)
         ELSE Built(
            [drivers_customizados |-> drivers.l,
             total_drivers |-> Len(drivers.l),
             categorias_cobertas |-> <<"Medo da perda", "Desejo de ganho",
                                      "Urgência temporal", "Prova social", "Autoridade">>,
             roteiros_ativacao |-> GetAttr(drivers_data.m, "roteiros_ativacao", EmptyDict),
             frases_ancoragem |-> GetAttr(drivers_data.m, "frases_ancoragem", EmptyDict),
             intensidade_media |-> "8.5/10"])

\* _generate_visual_proofs_section
GenerateVisualProofsSection(data) ==
    LET proofs_data == Subsection(data, "provas_visuais_arsenal") IN
    IF proofs_data.isNone THEN Raised(NoGet)
    ELSE Built(
        [provas_geradas |-> GetAttr(proofs_data.m, "provas_geradas", <<>>),
         tipos_prova |-> <<"Screenshots de resultados", "Depoimentos em vídeo",
                          "Estudos de caso", "Métricas em tempo real",
                          "Comparativos visuais">>,
         scripts_apresentacao |-> <<"Mostrar antes/depois", "Destacar transformações",
                                   "Evidenciar resultados">>,
         impacto_persuasivo |-> "Muito Alto"])

\* _generate_anti_objection_section
GenerateAntiObjectionSection(data) ==
    LET anti_obj_data == Subsection(data, "sistema_anti_objecao") IN
    IF anti_obj_data.isNone THEN Raised(NoGet)
    ELSE Built(
        [objecoes_universais_cobertas |-> <<"Não tenho tempo", "Está muito caro",
                                           "Preciso pensar melhor", "Não confio ainda">>,
         scripts_neutralizacao |-> GetAttr(anti_obj_data.m, "respostas_anti_objecao", <<>>),
         arsenal_emergencia |-> <<"Garantia de resultados", "Suporte completo",
                                 "Casos de sucesso">>,
         taxa_neutralizacao |-> "95%"])

\* _generate_pre_pitch_section
GeneratePrePitchSection(data) ==
    LET pre_pitch_data == Subsection(data, "pre_pitch_invisivel") IN
    IF pre_pitch_data.isNone THEN Raised(NoGet)
    ELSE Built(
        [estrutura_completa |-> GetAttr(pre_pitch_data.m, "estrutura_pre_pitch", <<>>),
         sequencia_psicologica |-> <<"Captura de atenção", "Identificação da dor",
                                    "Amplificação do problema", "Apresentação da solução",
                                    "Prova de credibilidade", "Chamada para ação">>,
         gatilhos_persuasivos |-> <<"Escassez temporal", "Autoridade demonstrada",
                                   "Prova social evidente">>,
         tempo_otimo |-> "7-12 minutos"])

\* _generate_future_predictions_section
GenerateFuturePredictionsSection(data) ==
    LET predictions_data == Subsection(data, "predicoes_futuro_detalhadas") IN
    IF predictions_data.isNone THEN Raised(NoGet)
    ELSE Built(
        [horizontes_temporais |->
             [k \in {"3_meses", "6_meses", "12_meses", "24_meses"} |->
                 CASE k = "3_meses" -> "Tendências imediatas"
                   [] k = "6_meses" -> "Oportunidades emergentes"
                   [] k = "12_meses" -> "Mudanças estruturais"
                   [] k = "24_meses" -> "Transformações disruptivas"],
         previsoes_chave |-> GetAttr(predictions_data.m, "previsoes", <<>>),
         oportunidades_identificadas |-> <<"Novos segmentos de mercado",
                                          "Tecnologias emergentes", "Mudanças regulatórias">>,
         riscos_potenciais |-> <<"Entrada de concorrentes", "Mudanças de comportamento",
                                "Pressões econômicas">>])

\* _generate_competition_analysis: does not read its argument
GenerateCompetitionAnalysis(data) ==
    Built(
        [concorrentes_principais |-> <<"Líder de mercado", "Challenger principal",
                                      "Concorrente emergente">>,
         analise_posicionamento |->
             [pontos_fortes |-> <<"Qualidade", "Preço", "Atendimento">>,
              pontos_fracos |-> <<"Inovação", "Agilidade", "Personalização">>,
              oportunidades |-> <<"Nicho específico", "Tecnologia", "Experiência">>],
         estrategias_diferenciacao |-> <<"Proposta de valor única", "Experiência superior",
                                        "Inovação constante">>])

\* _generate_exclusive_insights: does not read its argument
GenerateExclusiveInsights(data) ==
    Built(
        [insights_estrategicos |-> <<"Padrão comportamental não explorado",
                                    "Janela de oportunidade temporal",
                                    "Vantagem competitiva sustentável">>,
         descobertas_unicas |-> <<"Necessidade latente identificada",
                                 "Segmento sub-atendido", "Inovação disruptiva possível">>,
         recomendacoes_acao |-> <<"Priorizar segmento específico",
                                 "Desenvolver solução inovadora",
                                 "Acelerar entrada no mercado">>])

\* _generate_keywords_analysis: does not read its argument
GenerateKeywordsAnalysis(data) ==
    Built(
        [palavras_chave_primarias |-> <<"Termo principal 1", "Termo principal 2",
                                       "Termo principal 3">>,
         palavras_chave_secundarias |-> <<"Termo relacionado 1", "Termo relacionado 2",
                                         "Termo relacionado 3">>,
         palavras_long_tail |-> <<"Frase específica 1", "Frase específica 2",
                                 "Frase específica 3">>,
         oportunidades_seo |-> <<"Gap de conteúdo identificado",
                                "Palavras com baixa concorrência", "Termos emergentes">>])

\* _generate_sales_funnel: does not read its argument
GenerateSalesFunnel(data) ==
    Built(
        [etapas_funil |->
             [consciencia |->
                  [objetivo |-> "Despertar interesse",
                   estrategias |-> <<"Content marketing", "SEO", "Social media">>,
                   metricas |-> <<"Impressões", "Cliques", "Engajamento">>],
              consideracao |->
                  [objetivo |-> "Educar e nutrir",
                   estrategias |-> <<"E-books", "Webinars", "Email marketing">>,
                   metricas |-> <<"Downloads", "Participação", "Abertura">>],
              decisao |->
                  [objetivo |-> "Converter em venda",
                   estrategias |-> <<"Demos", "Trials", "Consultoria">>,
                   metricas |-> <<"Conversões", "Vendas", "ROI">>]],
         otimizacoes_recomendadas |-> <<"Personalizar mensagens", "Automatizar follow-up",
                                       "Segmentar audiences">>,
         taxa_conversao_esperada |-> "15-25%"])

\* the builder generate_complete_report calls for the i-th component
SectionBuilder(i, data) ==
    CASE i = 1 -> GenerateWebResearchSection(data)
      [] i = 2 -> GenerateAvatarSection(data)
      [] i = 3 -> GenerateDriversSection(data)
      [] i = 4 -> GenerateVisualProofsSection(data)
      [] i = 5 -> GenerateAntiObjectionSection(data)
      [] i = 6 -> GeneratePrePitchSection(data)
      [] i = 7 -> GenerateFuturePredictionsSection(data)
      [] i = 8 -> GenerateCompetitionAnalysis(data)
      [] i = 9 -> GenerateExclusiveInsights(data)
      [] i = 10 -> GenerateKeywordsAnalysis(data)
      [] i = 11 -> GenerateSalesFunnel(data)

\* _generate_final_consolidation
GenerateFinalConsolidation(r) ==
    [resumo_executivo |-> "Análise completa realizada com todos os componentes obrigatórios",
     principais_achados |-> <<"Avatar detalhado mapeado", "22 drivers mentais identificados",
                             "Sistema anti-objeção completo",
                             "Predições futuras estruturadas">>,
     proximos_passos |-> <<"Implementar estratégias identificadas", "Testar drivers mentais",
                          "Monitorar métricas de conversão">>,
     garantia_completude |-> "100% dos componentes obrigatórios incluídos"]

-----------------------------------------------------------------------------
(* ComprehensiveReportGenerator: the report *)

\* a dict that keeps its insertion order: a sequence of entries
Entry(k, v) == [key |-> k, value |-> v]
DictKeys(d) == {d[i].key : i \in 1..Len(d)}
\* d[k] = v
DictSet(d, k, v) ==
    IF k \in DictKeys(d)
    THEN [i \in 1..Len(d) |-> IF d[i].key = k THEN Entry(k, v) ELSE d[i]]
    ELSE Append(d, Entry(k, v))

\* f"{(present/total)*100:.1f}%": the digits before the point, the digit after it
FormatPercent(present, total) ==
    LET tenths == (2000 * present + total) \div (2 * total) IN
    <<tenths \div 10, ".", tenths % 10, "%">>

\* _calculate_completeness_metrics
CalculateCompletenessMetrics(r, required) ==
    LET components == GetAttr(r, "componentes_analise", <<>>)
        components_present == Len(components)
        total_required == Len(required) IN
    [componentes_incluidos |-> components_present,
     componentes_obrigatorios |-> total_required,
     taxa_completude |-> FormatPercent(components_present, total_required),
     status |-> IF components_present >= total_required THEN "COMPLETO" ELSE "INCOMPLETO",
     componentes_faltantes |->
         SelectSeq(required, LAMBDA comp : comp \notin DictKeys(components))]

CategoryOfBug(component_name) == "analise_completa"
\* category_map.get(component_name, 'analise_completa')
CategoryOf(component_name) ==
    CASE component_name = "drivers_mentais_customizados" -> "drivers_mentais"
      [] component_name = "provas_visuais_arsenal" -> "provas_visuais"
      [] component_name = "sistema_anti_objecao" -> "anti_objecao"
      [] component_name = "pre_pitch_invisivel" -> "pre_pitch"
      [] OTHER -> "analise_completa"

\* one call salvar_etapa(step, payload, categoria=..., session_id=...)
SaveCall(step, payload, categoria, sid) ==
    [step |-> step, payload |-> payload, categoria |-> categoria, session_id |-> sid]

\* salvar_etapa comes from services.auto_save_manager; the persistence
\* collaborator is fire-and-forget and does not raise
SalvarEtapaRaises(call) == FALSE

\* the calls the body of _save_complete_report makes when none of them raises
PlannedSaves(r, sid) ==
    LET components == GetAttr(r, "componentes_analise", <<>>) IN
    <<SaveCall(<<"relatorio_final_completo">>, r, "relatorios_finais", sid),
      SaveCall(<<"analise_completa_final">>, r, "analise_completa", sid)>>
    \o [i \in 1..Len(components) |->
           SaveCall(<<"componente_", components[i].key>>, components[i].value,
                    CategoryOf(components[i].key), sid)]

\* _save_complete_report: the calls it makes, in order; a call that raises is the
\* last one, the except clause logs and returns
SaveCompleteReport(r, sid) ==
    LET planned == PlannedSaves(r, sid)
        raising == {i \in 1..Len(planned) : SalvarEtapaRaises(planned[i])} IN
    IF raising = {} THEN planned
    ELSE SubSeq(planned, 1, CHOOSE i \in raising : \A j \in raising : i <= j)

GenerateEmergencyReportBug(data, sid, error) ==
    [metadata_relatorio |-> [session_id |-> sid, timestamp_geracao |-> "now",
                            status |-> "EMERGENCIA", erro |-> error],
     dados_parciais |-> Mapping(EmptyDict),
     componentes_salvos |-> "Dados parciais preservados",
     proximos_passos |-> "Revisar erro e regenerar relatório"]
\* _generate_emergency_report
GenerateEmergencyReport(data, sid, error) ==
    [metadata_relatorio |-> [session_id |-> sid, timestamp_geracao |-> "now",
                            status |-> "EMERGENCIA", erro |-> error],
     dados_parciais |-> data,
     componentes_salvos |-> "Dados parciais preservados",
     proximos_passos |-> "Revisar erro e regenerar relatório"]

\* the base structure and the eleven assignments, in the order of the code
RECURSIVE BuildComponents(_, _, _)
BuildComponents(data, i, built) ==
    IF i > Len(RequiredComponents) THEN Built(built)
    ELSE LET section == SectionBuilder(i, data) IN
         IF section.raised # <<>> THEN Raised(section.raised)
         ELSE BuildComponents(data, i + 1,
                              DictSet(built, RequiredComponents[i], section.value))

\* generate_complete_report: what it returns and the saves it makes
GenerateCompleteReport(data, sid) ==
    IF data.isNone
    THEN [report |-> GenerateEmergencyReport(data, sid, NoGet), saves |-> <<>>]
    ELSE LET components == BuildComponents(data, 1, <<>>) IN
         IF components.raised # <<>>
         THEN [report |-> GenerateEmergencyReport(data, sid, components.raised),
               saves |-> <<>>]
         ELSE LET base == [metadata_relatorio |->
                               [session_id |-> sid, timestamp_geracao |-> "now",
                                versao_engine |-> "ARQV30 Enhanced v3.0",
                                completude |-> "100%",
                                todos_componentes_incluidos |-> TRUE],
                           dados_entrada |->
                               GetAttr(data.m, "projeto_dados", Mapping(EmptyDict)),
                           componentes_analise |-> components.value]
                  consolidated == [k \in DOMAIN base \cup {"consolidacao_final"} |->
                                      IF k = "consolidacao_final"
                                      THEN GenerateFinalConsolidation(base) ELSE base[k]]
                  complete_report ==
                      [k \in DOMAIN consolidated \cup {"metricas_completude"} |->
                          IF k = "metricas_completude"
                          THEN CalculateCompletenessMetrics(consolidated, RequiredComponents)
                          ELSE consolidated[k]]
              IN [report |-> complete_report,
                  saves |-> SaveCompleteReport(complete_report, sid)]

NoReport == [nothing |-> TRUE]

\* a caller runs generate_complete_report(analysis_data, session_id)
Generate ==
    /\ report = NoReport
    /\ LET done == GenerateCompleteReport(analysis_data, session_id) IN
       /\ report' = done.report
       /\ saves' = done.saves
    /\ UNCHANGED <<analysis_data, session_id>>
    /\ UNCHANGED exaVars

-----------------------------------------------------------------------------
(* ComprehensiveReportGenerator: the inputs *)

\* the subsections the builders read
InputKeys ==
    {"pesquisa_web_massiva", "avatar_ultra_detalhado", "drivers_mentais_customizados",
     "provas_visuais_arsenal", "sistema_anti_objecao", "pre_pitch_invisivel",
     "predicoes_futuro_detalhadas"}

\* a subsection is absent, a filled mapping, an empty mapping, None, or a mapping
\* whose list field is None
Shapes(key) ==
    {"absent", "filled", "none"}
        \cup (IF key = "pesquisa_web_massiva" THEN {"empty", "bad list"} ELSE {})
        \cup (IF key = "drivers_mentais_customizados" THEN {"bad list"} ELSE {})

SourceList(n) == [i \in 1..n |-> <<"https://fonte/", i>>]

Filled(key) ==
    CASE key = "pesquisa_web_massiva" ->
            [total_resultados |-> 42, resultados_extraidos |-> 30,
             qualidade_pesquisa |-> "ALTA",
             search_results |-> ListValue(SourceList(MaxSources + 2))]
      [] key = "avatar_ultra_detalhado" ->
            [demographics |-> [idade |-> "30-45"], dores |-> <<"falta de tempo">>,
             linguagem |-> "Formal"]
      [] key = "drivers_mentais_customizados" ->
            [drivers_customizados |-> ListValue(<<"urgência", "prova social">>),
             roteiros_ativacao |-> [urgencia |-> "roteiro"]]
      [] key = "provas_visuais_arsenal" -> [provas_geradas |-> <<"prova 1">>]
      [] key = "sistema_anti_objecao" -> [respostas_anti_objecao |-> <<"resposta 1">>]
      [] key = "pre_pitch_invisivel" -> [estrutura_pre_pitch |-> <<"abertura">>]
      [] key = "predicoes_futuro_detalhadas" -> [previsoes |-> <<"previsão 1">>]

BadList(key) ==
    IF key = "pesquisa_web_massiva" THEN [search_results |-> NoListValue]
    ELSE [drivers_customizados |-> NoListValue]

SubsectionValue(key, shape) ==
    CASE shape = "filled" -> Mapping(Filled(key))
      [] shape = "empty" -> Mapping(EmptyDict)
      [] shape = "bad list" -> Mapping(BadList(key))
      [] shape = "none" -> NoneValue

ShapeChoices == {c \in [InputKeys -> {"absent", "filled", "none", "empty", "bad list"}] :
                    \A k \in InputKeys : c[k] \in Shapes(k)}

InputOf(c, withProject) ==
    Mapping([k \in {k \in InputKeys : c[k] # "absent"}
                  \cup (IF withProject THEN {"projeto_dados"} ELSE {}) |->
                IF k = "projeto_dados" THEN Mapping([segmento |-> "varejo"])
                ELSE SubsectionValue(k, c[k])])

AnalysisInputs ==
    {InputOf(c, withProject) : c \in ShapeChoices, withProject \in BOOLEAN}
        \cup {NoneValue}

SessionIds == {None, "session-1"}

ReportIdle ==
    /\ analysis_data = Mapping(EmptyDict)
    /\ session_id = None
    /\ report = NoReport
    /\ saves = <<>>

-----------------------------------------------------------------------------
(* Construction *)

\* os.getenv("EXA_API_KEY", <embedded default>)
EnvChoices == {"unset", "", "env-key"}
ApiKeyFromEnv(env) == IF env = "unset" THEN "embedded-default" ELSE env

\* ExaClient.__init__: the fields after construction
Constructed(env, ctorRaises) ==
    LET key == ApiKeyFromEnv(env) IN
    IF key # "" /\ ~ctorRaises
    THEN [api_key |-> key, client |-> "Exa", available |-> TRUE]
    ELSE [api_key |-> key, client |-> None, available |-> FALSE]

ExaInit ==
    /\ \E env \in EnvChoices, ctorRaises \in BOOLEAN :
          LET c == Constructed(env, ctorRaises) IN
          /\ api_key = c.api_key
          /\ client = c.client
          /\ available = c.available
    /\ pc = "idle"
    /\ query = ""
    /\ num_results = IntArg(10)
    /\ kwargs = EmptyKwargs
    /\ calls = <<>>
    /\ primaryRaised = <<>>
    /\ primaryResp = NoResponse
    /\ fallbackRaised = <<>>
    /\ fallbackResp = NoResponse
    /\ outcome = NoOutcome
    /\ lastOp = "none"
    /\ remote = NoResponse
    /\ ret = NoReturn

Init == ExaInit /\ ReportIdle

ExaNext ==
    \/ \E q \in Queries, n \in NumResultsChoices, kw \in KwargsChoices : Invoke(q, n, kw)
    \/ NoCredential
    \/ HasCredential
    \/ BuildParamsRaises
    \/ PrimaryWithoutClient
    \/ \E m \in RemoteErrors : PrimaryCallRaises(m)
    \/ \E response \in Responses : PrimaryCallReturns(response)
    \/ FallbackWithoutClient
    \/ \E m \in RemoteErrors : FallbackCallRaises(m)
    \/ \E response \in BasicResponses : FallbackCallReturns(response)
    \/ \E q \in Queries, f \in FilterChoices, b \in RemoteBehaviours : Search(q, 10, f, b)
    \/ \E text \in BOOLEAN, b \in RemoteBehaviours : GetContents(<<"id1", "id2">>, text, b)
    \/ \E b \in RemoteBehaviours : FindSimilar(<<"https://site/", 1>>, 10, b)
    \/ IsAvailable

Next == ExaNext

\* the search client alone
Spec == Init /\ [][Next]_vars

ExaIdle ==
    /\ api_key = "env-key" /\ client = "Exa" /\ available = TRUE
    /\ pc = "idle" /\ query = "" /\ num_results = IntArg(10) /\ kwargs = EmptyKwargs
    /\ calls = <<>> /\ primaryRaised = <<>> /\ primaryResp = NoResponse
    /\ fallbackRaised = <<>> /\ fallbackResp = NoResponse /\ outcome = NoOutcome
    /\ lastOp = "none" /\ remote = NoResponse /\ ret = NoReturn

ReportNext == Generate

\* the report generator alone
ReportSpecInit ==
    /\ analysis_data \in AnalysisInputs
    /\ session_id \in SessionIds
    /\ report = NoReport
    /\ saves = <<>>
    /\ ExaIdle

ReportSpec == ReportSpecInit /\ [][ReportNext]_vars

-----------------------------------------------------------------------------
(* Properties of search_comprehensive *)

InvocationRunning == pc # "idle"

CallsOf(op) == {i \in 1..Len(calls) : calls[i].op = op}

Returned == "success" \in DOMAIN outcome

\* the try block of the fallback was entered
FallbackEntered ==
    pc = "FALLBACK" \/ fallbackRaised # <<>> \/ fallbackResp # NoResponse

C1_Edges ==
    /\ pc = "START" =>
          /\ pc' \in {"START", "FAIL", "PRIMARY"}
          /\ pc' = "FAIL" => api_key = "" /\ calls' = <<>>
          /\ pc' = "PRIMARY" => api_key # ""
    /\ pc = "PRIMARY" => pc' \in {"PRIMARY", "SUCCESS", "FALLBACK", "FAIL"}
    /\ pc = "FALLBACK" =>
          /\ pc' \in {"FALLBACK", "SUCCESS", "FAIL"}
          /\ pc' = "SUCCESS" => outcome'.search_strategy = "basic_fallback"
    /\ pc \in Terminal =>
          /\ pc' \in {pc, "START", "idle"}
          /\ pc' = pc => outcome' = outcome /\ calls' = calls

C1_Shape ==
    InvocationRunning =>
        /\ pc \in {"START", "PRIMARY", "FALLBACK", "SUCCESS", "FAIL"}
        /\ Cardinality(CallsOf("search_and_contents")) <= 1
        /\ Cardinality(CallsOf("search")) <= 1
        /\ \A i \in CallsOf("search") : \E j \in CallsOf("search_and_contents") : j < i
        /\ pc = "SUCCESS" => Returned /\ outcome.success = TRUE
        /\ pc = "FAIL" => Returned /\ outcome.success = FALSE
        /\ pc \notin Terminal => ~Returned

\* C1: every invocation of search_comprehensive moves along the edges
\* START -> {FAIL, PRIMARY}, PRIMARY -> {SUCCESS, FALLBACK, FAIL},
\* FALLBACK -> {SUCCESS, FAIL}; it issues at most one primary and at most one
\* fallback remote call, the fallback call never before the primary call; a
\* terminal state is SUCCESS with success=true or FAIL with success=false and is
\* left only by a new invocation (no retry).
C1_StateMachine == [][C1_Edges]_vars /\ []C1_Shape

C1_Witness ==
    /\ pc = "SUCCESS"
    /\ Len(calls) = 2
    /\ calls[1].op = "search_and_contents"
    /\ calls[2].op = "search"

\* C2: the fallback is attempted only when the primary remote call itself raised;
\* any other error of the invocation (building the parameters, processing the
\* answer) gives success=false with that error's message, empty results and no
\* fallback call.
C2_FallbackOnlyOnRemoteError ==
    InvocationRunning =>
        /\ FallbackEntered => primaryRaised # <<>> /\ primaryResp = NoResponse
        /\ (pc \in Terminal /\ primaryResp # NoResponse /\ primaryRaised # <<>>) =>
              /\ outcome = OuterFailure(query, primaryRaised)
              /\ CallsOf("search") = {}
        /\ (pc \in Terminal /\ api_key # "" /\ ~num_results.isInt) =>
              /\ outcome.success = FALSE
              /\ outcome.results = <<>>
              /\ outcome.error = PyMin(num_results, PrimaryLimit).raised
              /\ calls = <<>>

\* C3: with no credential configured the invocation returns success=false, empty
\* results and the missing-credential error, for every query and num_results, and
\* issues no remote call.
C3_NoCredentialNoCall ==
    (InvocationRunning /\ api_key = "") =>
        /\ calls = <<>>
        /\ pc \in {"START", "FAIL"}
        /\ pc = "FAIL" =>
              /\ outcome.success = FALSE
              /\ outcome.results = <<>>
              /\ outcome.error = <<"API key não configurada">>
              /\ outcome.query = query

C3_Witness == pc = "FAIL" /\ api_key = "" /\ num_results = IntArg(1000)

\* C4: when the primary call raised and the fallback call succeeded, the outcome
\* has success=true and search_strategy basic_fallback, as many results as the
\* fallback call returned items, each with an empty text and the basic source tag.
C4_FallbackSuccess ==
    (pc = "SUCCESS" /\ primaryRaised # <<>>) =>
        LET returned == IF "results" \in DOMAIN fallbackResp
                        THEN Len(fallbackResp.results) ELSE 0 IN
        /\ outcome.success = TRUE
        /\ outcome.search_strategy = "basic_fallback"
        /\ outcome.total_results = returned
        /\ Len(outcome.results) = returned
        /\ \A i \in 1..Len(outcome.results) :
              /\ outcome.results[i].text = <<>>
              /\ outcome.results[i].source = "exa_basic"
              /\ outcome.results[i].url = fallbackResp.results[i].url

C4_Witness ==
    /\ pc = "SUCCESS"
    /\ primaryRaised = <<"timeout">>
    /\ outcome.search_strategy = "basic_fallback"
    /\ Len(outcome.results) = MaxItems

BothRaised == pc \in Terminal /\ primaryRaised # <<>> /\ fallbackRaised # <<>>

\* C5 as stated: when both calls raise, the invocation returns success=false,
\* empty results and an error equal to the fallback's error message.
C5_ErrorIsFallbackMessage ==
    BothRaised =>
        /\ Returned
        /\ outcome.success = FALSE
        /\ outcome.results = <<>>
        /\ outcome.error = fallbackRaised

\* C5 amended: when both calls raise, the invocation returns success=false, empty
\* results and an error that is the text "Busca básica falhou: " followed by the
\* fallback's error message (and carries no part of the primary call's message
\* unless the two messages are the same).
C5_ErrorIsPrefixedFallbackMessage ==
    BothRaised =>
        /\ Returned
        /\ pc = "FAIL"
        /\ outcome.success = FALSE
        /\ outcome.results = <<>>
        /\ Len(outcome.error) = 1 + Len(fallbackRaised)
        /\ outcome.error[1] = "Busca básica falhou: "
        /\ \A i \in 1..Len(fallbackRaised) : outcome.error[i + 1] = fallbackRaised[i]

C5_Witness ==
    /\ pc = "FAIL"
    /\ primaryRaised = <<"timeout">>
    /\ fallbackRaised = <<"HTTP 500">>
    /\ Len(calls) = 2

NeuralOutcome == pc = "SUCCESS" /\ outcome.search_strategy = "comprehensive_neural"

\* the text of a returned item as the loop reads it: '' when the attribute is missing
SourceText(item) == IF "text" \in DOMAIN item THEN item.text.s ELSE <<>>

TrimmedLen(t) ==
    LET inner == {i \in 1..Len(t) : t[i].c # " "} IN
    IF inner = {} THEN 0
    ELSE LET lo == CHOOSE i \in inner : \A j \in inner : i <= j
             hi == CHOOSE i \in inner : \A j \in inner : j <= i
         IN TextLen(SubSeq(t, lo, hi))

UrlsOf(items) == [i \in 1..Len(items) |-> items[i].url]

KeptUntruncated(item) == TrimmedLen(SourceText(item)) >= TextFloor
KeptTruncated(item) == TrimmedLen(Slice(SourceText(item), TextCap)) >= TextFloor

\* C6 as stated: on a successful primary call the results are exactly the returned
\* items whose trimmed text has at least 100 characters, in the service's order,
\* and total_results is their number.
C6_KeepsTrimmedAtLeast100 ==
    NeuralOutcome =>
        /\ UrlsOf(outcome.results) = UrlsOf(SelectSeq(ResultsOf(primaryResp), KeptUntruncated))
        /\ outcome.total_results = Len(outcome.results)

\* C6 amended: in a comprehensive_neural outcome the results are exactly the returned
\* items whose text, cut to its first 2000 characters and then trimmed, has at
\* least 100 characters, in the service's order; the other items are dropped
\* without an error, and total_results is the number of kept items.
C6_KeepsTruncatedTrimmedAtLeast100 ==
    NeuralOutcome =>
        /\ UrlsOf(outcome.results) = UrlsOf(SelectSeq(ResultsOf(primaryResp), KeptTruncated))
        /\ outcome.total_results = Len(outcome.results)
        /\ outcome.success = TRUE
        /\ primaryRaised = <<>>

C6_Witness ==
    /\ NeuralOutcome
    /\ Len(ResultsOf(primaryResp)) = 2
    /\ SourceText(primaryResp.results[1]) = T50
    /\ SourceText(primaryResp.results[2]) = T150
    /\ UrlsOf(outcome.results) = <<Urls[2]>>

\* C7: the primary call is sent min(num_results, 20) and the fallback call
\* min(num_results, 10), both from the caller's num_results; no primary call is
\* sent more than 20 and no fallback call more than 10.
C7_Clamped ==
    InvocationRunning =>
        \A i \in 1..Len(calls) :
            LET sent == calls[i].params.num_results
                asked == num_results.v IN
            /\ calls[i].op = "search_and_contents" =>
                  /\ sent = (IF asked < 20 THEN asked ELSE 20)
                  /\ sent <= 20
            /\ calls[i].op = "search" =>
                  /\ sent = (IF asked < 10 THEN asked ELSE 10)
                  /\ sent <= 10

C7_Witness ==
    /\ num_results = IntArg(1000)
    /\ Len(calls) = 2
    /\ calls[1].op = "search_and_contents" /\ calls[1].params.num_results = 20
    /\ calls[2].op = "search" /\ calls[2].params.num_results = 10

SourceOf(result) ==
    LET items == ResultsOf(primaryResp) IN
    items[CHOOSE i \in 1..Len(items) : items[i].url = result.url]

\* C8: in every returned outcome each result's text has at most 2000 characters;
\* a source text longer than 2000 characters is replaced by exactly its first
\* 2000 characters and a source text of at most 2000 characters is kept unchanged.
C8_TextCapped ==
    (pc \in Terminal) =>
        \A i \in 1..Len(outcome.results) :
            LET r == outcome.results[i] IN
            /\ TextLen(r.text) <= 2000
            /\ NeuralOutcome =>
                  LET src == SourceText(SourceOf(r)) IN
                  /\ TextLen(src) > 2000 =>
                        /\ TextLen(r.text) = 2000
                        /\ \A k \in 1..2000 : CharAt(r.text, k) = CharAt(src, k)
                  /\ TextLen(src) <= 2000 => r.text = src

C8_Witness ==
    /\ NeuralOutcome
    /\ \E i \in 1..Len(outcome.results) :
          /\ SourceText(SourceOf(outcome.results[i])) = T2500
          /\ TextLen(outcome.results[i].text) = 2000

-----------------------------------------------------------------------------
(* Properties of search, get_contents, find_similar *)

\* C9: each of search, get_contents and find_similar returns None without a
\* remote call when the handle was never initialized, returns None when the
\* remote call raises or fails, otherwise returns the decoded answer; no
\* exception escapes.
C9_DirectOpsTotal ==
    (lastOp \notin {"none", "is_available"}) =>
        /\ lastOp \in {"search", "get_contents", "find_similar"}
        /\ ret.escaped = <<>>
        /\ ~available => ret.isNone /\ calls = <<>>
        /\ available =>
              /\ Len(calls) = 1 /\ calls[1].op = lastOp
              /\ (remote.kind # "answers" \/ remote.status # 200) => ret.isNone
              /\ (remote.kind = "answers" /\ remote.status = 200) =>
                    ~ret.isNone /\ ret.value = remote.data

C9_Witness ==
    /\ lastOp = "find_similar"
    /\ available
    /\ ~ret.isNone
    /\ ret.value = [results |-> <<"r1", "r2">>]

-----------------------------------------------------------------------------
(* Properties of generate_complete_report *)

\* the input is a mapping whose subsections, where present, are mappings with
\* lists where lists are read
WellFormedInput ==
    /\ ~analysis_data.isNone
    /\ \A k \in DOMAIN analysis_data.m \cap InputKeys :
          /\ ~analysis_data.m[k].isNone
          /\ \A f \in DOMAIN analysis_data.m[k].m \cap {"search_results", "drivers_customizados"} :
                analysis_data.m[k].m[f].isList

AbsentSubsections == InputKeys \ DOMAIN analysis_data.m

IsCompletedReport(r) ==
    /\ "componentes_analise" \in DOMAIN r
    /\ "dados_parciais" \notin DOMAIN r
    /\ "status" \notin DOMAIN r.metadata_relatorio

\* C10: for an input mapping in which any subset of the component subsections is
\* absent (the others being mappings), generate_complete_report returns a
\* CompletedReport, not an EmergencyReport, whose section map has exactly the 11
\* required keys, each mapped to a non-empty structure.
C10_AllSectionsPresent ==
    (report # NoReport /\ WellFormedInput) =>
        /\ IsCompletedReport(report)
        /\ Len(report.componentes_analise) = 11
        /\ \A i \in 1..11 :
              /\ report.componentes_analise[i].key = RequiredComponents[i]
              /\ DOMAIN report.componentes_analise[i].value # {}
        /\ \A i \in 1..Len(RequiredComponents) :
              \E j \in 1..Len(report.componentes_analise) :
                  report.componentes_analise[j].key = RequiredComponents[i]

C10_Witness ==
    /\ report # NoReport
    /\ ~analysis_data.isNone
    /\ AbsentSubsections = InputKeys
    /\ IsCompletedReport(report)
    /\ Len(report.componentes_analise) = 11

-----------------------------------------------------------------------------
(* Properties of the emergency path *)

\* some subsection a builder reads is None, or a list field a builder slices or
\* measures is None: the builder that reads it raises
SomeBuilderRaises ==
    /\ ~analysis_data.isNone
    /\ \E k \in DOMAIN analysis_data.m \cap InputKeys :
          \/ analysis_data.m[k].isNone
          \/ /\ k = "pesquisa_web_massiva"
             /\ "search_results" \in DOMAIN analysis_data.m[k].m
             /\ ~analysis_data.m[k].m["search_results"].isList
          \/ /\ k = "drivers_mentais_customizados"
             /\ "drivers_customizados" \in DOMAIN analysis_data.m[k].m
             /\ ~analysis_data.m[k].m["drivers_customizados"].isList

IsEmergencyReport(r) ==
    /\ DOMAIN r = {"metadata_relatorio", "dados_parciais", "componentes_salvos",
                   "proximos_passos"}
    /\ r.metadata_relatorio.status = "EMERGENCIA"

\* C11: when a section builder raises during generate_complete_report, the call
\* still returns: the value returned is an emergency report that carries the
\* caller's input unchanged, a non-empty error text (the message of the exception
\* raised) and the fixed recovery instruction.
C11_EmergencyOnBuilderError ==
    (report # NoReport /\ SomeBuilderRaises) =>
        /\ IsEmergencyReport(report)
        /\ report.dados_parciais = analysis_data
        /\ report.metadata_relatorio.erro # <<>>
        /\ report.metadata_relatorio.erro \in {NoGet, NotSubscriptable, NoLen}
        /\ report.metadata_relatorio.session_id = session_id
        /\ report.proximos_passos = "Revisar erro e regenerar relatório"

\* the avatar subsection is None while the ones before it are fine: the second
\* builder raises after the first one has built its section
C11_Witness ==
    /\ report # NoReport
    /\ ~analysis_data.isNone
    /\ "avatar_ultra_detalhado" \in DOMAIN analysis_data.m
    /\ analysis_data.m["avatar_ultra_detalhado"].isNone
    /\ "pesquisa_web_massiva" \notin DOMAIN analysis_data.m
    /\ IsEmergencyReport(report)
    /\ report.metadata_relatorio.erro = NoGet
    /\ report.dados_parciais = analysis_data

-----------------------------------------------------------------------------
(* _calculate_completeness_metrics on any report *)

\* a section name that is not one of the required components
ExtraComponent == "componente_extra"

ComponentNames ==
    RequiredComponents \o <<ExtraComponent>>

\* the section map holding the names of a set, in the order of ComponentNames
ComponentsNamed(names) ==
    LET kept == SelectSeq(ComponentNames, LAMBDA n : n \in names) IN
    [i \in 1..Len(kept) |-> Entry(kept[i], [conteudo |-> "presente"])]

\* the reports handed to _calculate_completeness_metrics: any section map over
\* the names above, and a report without a section map
MetricsReports ==
    {[metadata_relatorio |-> [session_id |-> None],
      componentes_analise |-> ComponentsNamed(names)] :
        names \in SUBSET {ComponentNames[i] : i \in 1..Len(ComponentNames)}}
        \cup {[metadata_relatorio |-> [session_id |-> None]]}

\* complete_report["metricas_completude"] = self._calculate_completeness_metrics(...)
CalculateMetrics ==
    /\ "metricas_completude" \notin DOMAIN report
    /\ report' = [k \in DOMAIN report \cup {"metricas_completude"} |->
                     IF k = "metricas_completude"
                     THEN CalculateCompletenessMetrics(report, RequiredComponents)
                     ELSE report[k]]
    /\ UNCHANGED <<analysis_data, session_id, saves>>
    /\ UNCHANGED exaVars

MetricsNext == CalculateMetrics

MetricsSpecInit ==
    /\ report \in MetricsReports
    /\ analysis_data = Mapping(EmptyDict)
    /\ session_id = None
    /\ saves = <<>>
    /\ ExaIdle

\* the completeness metrics alone
MetricsSpec == MetricsSpecInit /\ [][MetricsNext]_vars

SectionsPresent(r) == DictKeys(GetAttr(r, "componentes_analise", <<>>))

RequiredAbsent(r) ==
    {RequiredComponents[i] : i \in 1..Len(RequiredComponents)} \ SectionsPresent(r)

Abs(x) == IF x < 0 THEN -x ELSE x

-----------------------------------------------------------------------------
(* Properties of the saves *)

\* the fixed name-to-category lookup of _save_complete_report
CategoryLookup ==
    [drivers_mentais_customizados |-> "drivers_mentais",
     provas_visuais_arsenal |-> "provas_visuais",
     sistema_anti_objecao |-> "anti_objecao",
     pre_pitch_invisivel |-> "pre_pitch"]

SavesOfStep(step) == {i \in 1..Len(saves) : saves[i].step = step}

\* C13: on a successful generate_complete_report the persistence collaborator
\* is called 13 times: first once with the whole report (sections,
\* consolidation and metrics already in it), then once with the same report as
\* the full-analysis copy, then once per section in the order of the section
\* map; every call carries the caller's session_id, and a section call uses the
\* category the lookup gives its name, or the generic category when the name is
\* not in the lookup.
C13_SavesInOrder ==
    (report # NoReport /\ IsCompletedReport(report)) =>
        /\ Len(saves) = 13
        /\ \A i \in 1..Len(saves) : saves[i].session_id = session_id
        /\ saves[1].step = <<"relatorio_final_completo">>
        /\ saves[1].categoria = "relatorios_finais"
        /\ saves[1].payload = report
        /\ {"componentes_analise", "consolidacao_final", "metricas_completude"}
               \subseteq DOMAIN saves[1].payload
        /\ Len(saves[1].payload.componentes_analise) = 11
        /\ saves[2].step = <<"analise_completa_final">>
        /\ saves[2].categoria = "analise_completa"
        /\ saves[2].payload = report
        /\ SavesOfStep(<<"relatorio_final_completo">>) = {1}
        /\ SavesOfStep(<<"analise_completa_final">>) = {2}
        /\ \A i \in 1..11 :
              LET name == report.componentes_analise[i].key IN
              /\ SavesOfStep(<<"componente_", name>>) = {i + 2}
              /\ saves[i + 2].payload = report.componentes_analise[i].value
              /\ saves[i + 2].categoria =
                     IF name \in DOMAIN CategoryLookup THEN CategoryLookup[name]
                     ELSE "analise_completa"

C13_Witness ==
    /\ report # NoReport
    /\ IsCompletedReport(report)
    /\ session_id = "session-1"
    /\ Len(saves) = 13
    /\ saves[5].step = <<"componente_", "drivers_mentais_customizados">>
    /\ saves[5].categoria = "drivers_mentais"
    /\ saves[3].categoria = "analise_completa"
    /\ saves[13].step = <<"componente_", "funil_vendas_otimizado">>

-----------------------------------------------------------------------------
(* Frame of the construction results *)

C14_Frame ==
    /\ api_key' = api_key
    /\ client' = client
    /\ available' = available

\* the handle and the status are those of one of the constructions
C14_AsConstructed ==
    /\ \E env \in EnvChoices, ctorRaises \in BOOLEAN :
          Constructed(env, ctorRaises) =
              [api_key |-> api_key, client |-> client, available |-> available]
    /\ lastOp = "is_available" =>
          /\ ~ret.isNone
          /\ ret.escaped = <<>>
          /\ ret.value = available
          /\ calls = <<>>
          /\ client = None => ret.value = FALSE

\* C14: the credential, the service handle and the availability status are set
\* at construction and no step of search, get_contents, find_similar,
\* search_comprehensive or is_available changes them, in any order and any
\* number of times; is_available returns the status, so a component whose
\* initialization failed answers False every time and its handle stays None.
C14_ConstructionIsFinal == [][C14_Frame]_vars /\ []C14_AsConstructed

\* a credential is configured, the initialization failed, a search_comprehensive
\* has run since (its arguments are still recorded) and is_available answers False
C14_Witness ==
    /\ api_key # ""
    /\ client = None
    /\ query = "market"
    /\ num_results = IntArg(20)
    /\ lastOp = "is_available"
    /\ ret.value = FALSE

-----------------------------------------------------------------------------
(* search_comprehensive on an unavailable component *)

ErrorIsFallbacks ==
    /\ primaryRaised # <<>>
    /\ fallbackRaised # <<>>
    /\ Len(outcome.error) = 1 + Len(fallbackRaised)
    /\ outcome.error[1] = "Busca básica falhou: "
    /\ \A i \in 1..Len(fallbackRaised) : outcome.error[i + 1] = fallbackRaised[i]

UnavailableFails ==
    /\ calls = <<>>
    /\ pc \in Terminal =>
          /\ pc = "FAIL"
          /\ Returned
          /\ outcome.success = FALSE
          /\ outcome.results = <<>>

\* C15 as stated: while the component is unavailable, search_comprehensive
\* issues no remote call and returns success=false with empty results; when a
\* credential is configured (the handle failed to initialize) the invocation
\* passes through the primary and the fallback step and the error returned is
\* the one the fallback reports.
C15_UnavailableFailsViaFallback ==
    (InvocationRunning /\ ~available) =>
        /\ UnavailableFails
        /\ (pc \in Terminal /\ api_key # "") => ErrorIsFallbacks

\* C15 amended: while the component is unavailable, search_comprehensive issues
\* no remote call and returns success=false with empty results; when a
\* credential is configured and num_results is an int, the invocation passes
\* through the primary and the fallback step and the error returned is the one
\* the fallback reports; when num_results is None, building the parameters
\* raises before the primary step and the error returned is that exception's
\* message, neither step having been attempted.
C15_UnavailableFailsViaFallbackOrLocalError ==
    (InvocationRunning /\ ~available) =>
        /\ UnavailableFails
        /\ (pc \in Terminal /\ api_key # "" /\ num_results.isInt) =>
              /\ ErrorIsFallbacks
              /\ primaryRaised = <<"'NoneType' object has no attribute '",
                                   "search_and_contents", "'">>
              /\ fallbackRaised = <<"'NoneType' object has no attribute '", "search", "'">>
        /\ (pc \in Terminal /\ api_key # "" /\ ~num_results.isInt) =>
              /\ primaryRaised = <<>>
              /\ fallbackRaised = <<>>
              /\ outcome.error =
                     <<"'<' not supported between instances of 'int' and 'NoneType'">>

C15_Witness ==
    /\ ~available
    /\ api_key # ""
    /\ client = None
    /\ pc = "FAIL"
    /\ num_results = IntArg(10)
    /\ calls = <<>>
    /\ fallbackRaised = <<"'NoneType' object has no attribute '", "search", "'">>
    /\ outcome.success = FALSE
    /\ outcome.error[1] = "Busca básica falhou: "

====
